---- MODULE Spec2Model ----
(***************************************************************************)
(* Conflict detection of Simanalysis: the severity classifier, the         *)
(* resource and tuning conflict detectors (simanalysis/detectors), the     *)
(* script module collision detection (simanalysis/analyzer.py) and the     *)
(* dependency graph (simanalysis/analyzers/dependency_graph.py).           *)
(*                                                                         *)
(* Python strings that the code formats, slices or compares are modelled   *)
(* as sequences of one-character strings; mod names and dictionary keys,   *)
(* which the code only copies and tests for equality, are TLA+ strings.    *)
(***************************************************************************)
EXTENDS Integers, Sequences, FiniteSets, TLC

VARIABLES mods, scripts, sev_args, sev_result, conflicts, pc,
          graph, mod_map, calls, query, answer, dep_graph,
          detector, rerun

vars == <<mods, scripts, sev_args, sev_result, conflicts, pc,
          graph, mod_map, calls, query, answer, dep_graph,
          detector, rerun>>

(***************************************************************************)
(* Bounds of the model.                                                    *)
(***************************************************************************)
MaxCount == 5
MaxEntries == 4
MaxScripts == 3
MaxEdges == 3
MaxDeps == 2
MaxOrder == 3
MaxPad == 22

(***************************************************************************)
(* Characters and strings.                                                 *)
(***************************************************************************)
\* The characters the model uses, in code point order.
Charset ==
    <<"0", "1", "2", "3", "4", "5", "6", "7", "8", "9",
      ":",
      "A", "B", "C", "D", "E", "F", "G", "H", "I", "J", "K", "L", "M",
      "N", "O", "P", "Q", "R", "S", "T", "U", "V", "W", "X", "Y", "Z",
      "_",
      "a", "b", "c", "d", "e", "f", "g", "h", "i", "j", "k", "l", "m",
      "n", "o", "p", "q", "r", "s", "t", "u", "v", "w", "x", "y", "z">>

Chars == {Charset[i] : i \in 1..Len(Charset)}

Ord == [c \in Chars |-> CHOOSE i \in 1..Len(Charset) : Charset[i] = c]

UpperChars ==
    <<"A", "B", "C", "D", "E", "F", "G", "H", "I", "J", "K", "L", "M",
      "N", "O", "P", "Q", "R", "S", "T", "U", "V", "W", "X", "Y", "Z">>

LowerChars ==
    <<"a", "b", "c", "d", "e", "f", "g", "h", "i", "j", "k", "l", "m",
      "n", "o", "p", "q", "r", "s", "t", "u", "v", "w", "x", "y", "z">>

\* str.lower() on one character
LowerChar(c) ==
    IF \E i \in 1..Len(UpperChars) : UpperChars[i] = c
    THEN LowerChars[CHOOSE i \in 1..Len(UpperChars) : UpperChars[i] = c]
    ELSE c

Lower(s) == [i \in 1..Len(s) |-> LowerChar(s[i])]

\* s[:n]
Prefix(s, n) == IF Len(s) <= n THEN s ELSE SubSeq(s, 1, n)

\* Python's < on str: lexicographic by code point
RECURSIVE StrLess(_, _)
StrLess(s, t) ==
    IF t = <<>> THEN FALSE
    ELSE IF s = <<>> THEN TRUE
    ELSE IF Ord[Head(s)] # Ord[Head(t)] THEN Ord[Head(s)] < Ord[Head(t)]
    ELSE StrLess(Tail(s), Tail(t))

StrLeq(s, t) == s = t \/ StrLess(s, t)

HexChars ==
    <<"0", "1", "2", "3", "4", "5", "6", "7", "8", "9", "A", "B", "C", "D", "E", "F">>

HexChar(d) == HexChars[d + 1]

RECURSIVE HexDigits(_)
HexDigits(n) ==
    IF n < 16 THEN <<HexChar(n)>>
    ELSE Append(HexDigits(n \div 16), HexChar(n % 16))

\* zero fill on the left up to the minimum width; longer strings are kept
ZeroPad(s, width) ==
    IF Len(s) >= width THEN s
    ELSE [i \in 1..width |-> IF i <= width - Len(s) THEN "0" ELSE s[i - (width - Len(s))]]

\* f"{n:0{width}X}"
Hex(n, width) == ZeroPad(HexDigits(n), width)

(***************************************************************************)
(* models.py: Severity and ConflictType.                                   *)
(***************************************************************************)
Severity == {"LOW", "MEDIUM", "HIGH", "CRITICAL"}

ConflictType ==
    {"TUNING_OVERLAP", "RESOURCE_DUPLICATE", "SCRIPT_INJECTION",
     "DEPENDENCY_MISSING", "VERSION_CONFLICT", "NAMESPACE_COLLISION"}

\* ConflictType.value
TypeValue(t) ==
    CASE t = "TUNING_OVERLAP" ->
           <<"T", "U", "N", "I", "N", "G", "_", "O", "V", "E", "R", "L", "A", "P">>
      [] t = "RESOURCE_DUPLICATE" ->
           <<"R", "E", "S", "O", "U", "R", "C", "E", "_",
             "D", "U", "P", "L", "I", "C", "A", "T", "E">>
      [] t = "SCRIPT_INJECTION" ->
           <<"S", "C", "R", "I", "P", "T", "_",
             "I", "N", "J", "E", "C", "T", "I", "O", "N">>
      [] t = "DEPENDENCY_MISSING" ->
           <<"D", "E", "P", "E", "N", "D", "E", "N", "C", "Y", "_",
             "M", "I", "S", "S", "I", "N", "G">>
      [] t = "VERSION_CONFLICT" ->
           <<"V", "E", "R", "S", "I", "O", "N", "_",
             "C", "O", "N", "F", "L", "I", "C", "T">>
      [] t = "NAMESPACE_COLLISION" ->
           <<"N", "A", "M", "E", "S", "P", "A", "C", "E", "_",
             "C", "O", "L", "L", "I", "S", "I", "O", "N">>

(***************************************************************************)
(* detectors/base.py: ConflictDetector.                                    *)
(***************************************************************************)
calculate_severity_nocore(conflict_type, affected_count, is_core_resource) ==
    IF conflict_type = "SCRIPT_INJECTION" THEN
        IF affected_count >= 3 THEN "CRITICAL"
        ELSE IF affected_count >= 2 THEN "HIGH"
        ELSE "MEDIUM"
    ELSE IF conflict_type = "TUNING_OVERLAP" THEN
        IF affected_count >= 3 THEN "HIGH"
        ELSE IF affected_count >= 2 THEN "MEDIUM"
        ELSE "LOW"
    ELSE IF conflict_type = "RESOURCE_DUPLICATE" THEN
        IF affected_count >= 3 THEN "MEDIUM" ELSE "LOW"
    ELSE IF conflict_type = "DEPENDENCY_MISSING" THEN "HIGH"
    ELSE IF conflict_type = "VERSION_CONFLICT" THEN "MEDIUM"
    ELSE IF conflict_type = "NAMESPACE_COLLISION" THEN
        IF affected_count >= 2 THEN "HIGH" ELSE "MEDIUM"
    ELSE "MEDIUM"

calculate_severity_offbyone(conflict_type, affected_count, is_core_resource) ==
    IF is_core_resource THEN "CRITICAL"
    ELSE IF conflict_type = "SCRIPT_INJECTION" THEN
        IF affected_count > 3 THEN "CRITICAL"
        ELSE IF affected_count > 2 THEN "HIGH"
        ELSE "MEDIUM"
    ELSE IF conflict_type = "TUNING_OVERLAP" THEN
        IF affected_count > 3 THEN "HIGH"
        ELSE IF affected_count > 2 THEN "MEDIUM"
        ELSE "LOW"
    ELSE IF conflict_type = "RESOURCE_DUPLICATE" THEN
        IF affected_count > 3 THEN "MEDIUM" ELSE "LOW"
    ELSE IF conflict_type = "DEPENDENCY_MISSING" THEN "HIGH"
    ELSE IF conflict_type = "VERSION_CONFLICT" THEN "MEDIUM"
    ELSE IF conflict_type = "NAMESPACE_COLLISION" THEN
        IF affected_count > 2 THEN "HIGH" ELSE "MEDIUM"
    ELSE "MEDIUM"

calculate_severity_exact(conflict_type, affected_count, is_core_resource) ==
    IF is_core_resource THEN "CRITICAL"
    ELSE IF conflict_type = "SCRIPT_INJECTION" THEN
        IF affected_count = 3 THEN "CRITICAL"
        ELSE IF affected_count = 2 THEN "HIGH"
        ELSE "MEDIUM"
    ELSE IF conflict_type = "TUNING_OVERLAP" THEN
        IF affected_count = 3 THEN "HIGH"
        ELSE IF affected_count = 2 THEN "MEDIUM"
        ELSE "LOW"
    ELSE IF conflict_type = "RESOURCE_DUPLICATE" THEN
        IF affected_count = 3 THEN "MEDIUM" ELSE "LOW"
    ELSE IF conflict_type = "DEPENDENCY_MISSING" THEN "HIGH"
    ELSE IF conflict_type = "VERSION_CONFLICT" THEN "MEDIUM"
    ELSE IF conflict_type = "NAMESPACE_COLLISION" THEN
        IF affected_count = 2 THEN "HIGH" ELSE "MEDIUM"
    ELSE "MEDIUM"

calculate_severity(conflict_type, affected_count, is_core_resource) ==
    IF is_core_resource THEN "CRITICAL"
    ELSE IF conflict_type = "SCRIPT_INJECTION" THEN
        IF affected_count >= 3 THEN "CRITICAL"
        ELSE IF affected_count >= 2 THEN "HIGH"
        ELSE "MEDIUM"
    ELSE IF conflict_type = "TUNING_OVERLAP" THEN
        IF affected_count >= 3 THEN "HIGH"
        ELSE IF affected_count >= 2 THEN "MEDIUM"
        ELSE "LOW"
    ELSE IF conflict_type = "RESOURCE_DUPLICATE" THEN
        IF affected_count >= 3 THEN "MEDIUM" ELSE "LOW"
    ELSE IF conflict_type = "DEPENDENCY_MISSING" THEN "HIGH"
    ELSE IF conflict_type = "VERSION_CONFLICT" THEN "MEDIUM"
    ELSE IF conflict_type = "NAMESPACE_COLLISION" THEN
        IF affected_count >= 2 THEN "HIGH" ELSE "MEDIUM"
    ELSE "MEDIUM"

generate_conflict_id(conflict_type, identifier) ==
    Prefix(Lower(TypeValue(conflict_type)), 4) \o <<"_">> \o identifier

\* The description and resolution texts do not enter any decision and are
\* left out of the ModConflict records.
create_conflict(conflict_type, affected_mods, identifier, details, is_core_resource) ==
    [id |-> generate_conflict_id(conflict_type, identifier),
     severity |-> calculate_severity(conflict_type, Len(affected_mods), is_core_resource),
     type |-> conflict_type,
     affected_mods |-> affected_mods,
     details |-> details]

(***************************************************************************)
(* analyzers/dependency_graph.py: the state of a DependencyGraph after     *)
(* __init__, the record of the add_mod calls made so far, and the last     *)
(* query with its answer.                                                  *)
(***************************************************************************)
\* Mod.hash when hashes are not calculated
None == <<"None">>

\* detectors/base.py: ConflictDetector.__init__; last_run is None, the empty
\* sequence here, before any run and <<t>> after a run at time t
NewDetector == [conflicts_found |-> 0, last_run |-> <<>>]

\* nx.DiGraph(): nodes in insertion order, the successors of every node in
\* insertion order, and the attributes of every node
EmptyGraph == [nodes |-> <<>>, succ |-> <<>>, attrs |-> <<>>]

\* what the add_mod calls were given: the names of the mods added, the
\* (mod name, dependency name) pairs mentioned and the names that entered
\* the graph as a dependency before any mod of that name was added
NoCalls == [mods |-> {}, deps |-> {}, placeholders |-> {}]

\* model/graph.py: DepGraph.__init__, the dictionary _nodes as the list of
\* its entries in insertion order and the set _edges
EmptyDepGraph == [nodes |-> <<>>, edges |-> {}]

NoQuery == [op |-> "none", node |-> "", names |-> {}, order |-> <<>>]

(***************************************************************************)
(* The severity classifier applied to one argument triple.                 *)
(***************************************************************************)
NoArgs == [kind |-> "NONE", count |-> 0, core |-> FALSE]

SevArgs == [kind : ConflictType, count : 0..MaxCount, core : BOOLEAN]

InitSeverity ==
    /\ sev_args \in SevArgs
    /\ sev_result = "NONE"
    /\ mods = <<>>
    /\ scripts = <<>>
    /\ conflicts = <<>>
    /\ pc = "idle"
    /\ graph = EmptyGraph
    /\ mod_map = <<>>
    /\ calls = NoCalls
    /\ query = NoQuery
    /\ answer = <<>>
    /\ dep_graph = EmptyDepGraph
    /\ detector = NewDetector
    /\ rerun = <<>>

CalcSeverity ==
    /\ sev_args \in SevArgs
    /\ sev_result' = calculate_severity(sev_args.kind, sev_args.count, sev_args.core)
    /\ pc' = "severity"
    /\ UNCHANGED <<mods, scripts, sev_args, conflicts, graph, mod_map, calls, query, answer, dep_graph, detector, rerun>>

NextSeverity == CalcSeverity

SpecSeverity == InitSeverity /\ [][NextSeverity]_vars

\* C1: with is_core_resource true the severity is CRITICAL for every kind
\* and every affected count, 0 and 1 included.
C1_CoreIsCritical ==
    (pc = "severity" /\ sev_args.core) => sev_result = "CRITICAL"

C1_Witness ==
    /\ pc = "severity"
    /\ sev_args.core
    /\ sev_args.kind = "RESOURCE_DUPLICATE"
    /\ sev_args.count = 0
    /\ sev_result = "CRITICAL"

\* The reference decision table of the severity classifier without the core
\* flag, written per kind as thresholds on the count.
ReferenceTable(kind, count) ==
    CASE kind = "SCRIPT_INJECTION" ->
           (CASE count >= 3 -> "CRITICAL" [] count = 2 -> "HIGH" [] OTHER -> "MEDIUM")
      [] kind = "TUNING_OVERLAP" ->
           (CASE count >= 3 -> "HIGH" [] count = 2 -> "MEDIUM" [] OTHER -> "LOW")
      [] kind = "RESOURCE_DUPLICATE" ->
           (CASE count >= 3 -> "MEDIUM" [] OTHER -> "LOW")
      [] kind = "DEPENDENCY_MISSING" -> "HIGH"
      [] kind = "VERSION_CONFLICT" -> "MEDIUM"
      [] kind = "NAMESPACE_COLLISION" ->
           (CASE count >= 2 -> "HIGH" [] OTHER -> "MEDIUM")

\* C2: with is_core_resource false the severity equals the reference
\* decision table for every kind and every count >= 0, and a severity is
\* always returned.
C2_MatchesTable ==
    pc = "severity" =>
        /\ sev_result \in Severity
        /\ ~sev_args.core => sev_result = ReferenceTable(sev_args.kind, sev_args.count)

C2_Witness ==
    /\ pc = "severity"
    /\ ~sev_args.core
    /\ sev_args.kind = "SCRIPT_INJECTION"
    /\ sev_args.count = 2
    /\ sev_result = "HIGH"

(***************************************************************************)
(* models.py: Mod, DBPFResource.key, TuningData; the values the scanner    *)
(* can put into them.                                                      *)
(***************************************************************************)
\* file names of the scanned mods, in the order of Python's sorted()
NameList == <<"A.package", "B.package", "C.package">>

Names == {NameList[i] : i \in 1..Len(NameList)}

NameRank == [n \in Names |-> CHOOSE i \in 1..Len(NameList) : NameList[i] = n]

\* resource keys (type, group, instance): an object definition
\* (0x0333406C) and a texture (0x2E75C764)
KeyOBJD == <<53690476, 0, 1>>

KeyTexture == <<779470692, 0, 2>>

Keys == {KeyOBJD, KeyTexture}

\* the hex digest of a file, longer than the 16 characters the conflict
\* identifier keeps
HashA ==
    <<"a", "1", "b", "2", "c", "3", "d", "4", "e", "5", "f", "6",
      "0", "7", "8", "9", "a", "b", "c", "d">>

\* a second digest with the same first 16 characters
HashB ==
    <<"a", "1", "b", "2", "c", "3", "d", "4", "e", "5", "f", "6",
      "0", "7", "8", "9", "0", "0", "0", "0">>

Hashes == {None, <<>>, HashA, HashB}

Sizes == {1000}

\* bool(mod.hash)
Truthy(h) == h # None /\ h # <<>>

\* Mod.resource_keys is a set; the model keeps it as the sequence in which
\* the set is iterated, every order being possible.
KeyOrders ==
    {ks \in UNION {[1..k -> Keys] : k \in 0..Cardinality(Keys)} :
        \A i, j \in 1..Len(ks) : i # j => ks[i] # ks[j]}

TuningIds == {11189196, 11189197}

CORE_TUNING_TYPES == {"Buff", "Trait", "Skill", "Career", "Aspiration", "Commodity"}

TuningClasses == {"Buff", "Interaction"}

TuningData ==
    [instance_id : TuningIds, tuning_name : {"tuning"}, tuning_class : TuningClasses,
     module : {"module"}, modified_attributes : {0}]

ModNames(ms) == {ms[i].name : i \in 1..Len(ms)}

RECURSIVE TotalTunings(_)
TotalTunings(ms) ==
    IF ms = <<>> THEN 0 ELSE Len(Head(ms).tunings) + TotalTunings(Tail(ms))

(***************************************************************************)
(* scanners/mod_scanner.py: one more package is scanned and appended to    *)
(* the list of mods, before any detector runs.                             *)
(***************************************************************************)
ScanPackageNamed(names, keyOrders, hashes, tuningLists) ==
    /\ pc = "idle"
    /\ \E n \in names \ ModNames(mods), sz \in Sizes, h \in hashes,
          ks \in keyOrders, ts \in tuningLists :
          /\ TotalTunings(mods) + Len(ts) <= MaxEntries
          /\ mods' = Append(mods, [name |-> n, size |-> sz, hash |-> h,
                                   resource_keys |-> ks, tunings |-> ts])
    /\ UNCHANGED <<scripts, sev_args, sev_result, conflicts, pc, graph, mod_map, calls, query, answer, dep_graph, detector, rerun>>

ScanPackage(keyOrders, hashes, tuningLists) ==
    ScanPackageNamed(Names, keyOrders, hashes, tuningLists)

InitMods ==
    /\ mods = <<>>
    /\ scripts = <<>>
    /\ sev_args = NoArgs
    /\ sev_result = "NONE"
    /\ conflicts = <<>>
    /\ pc = "idle"
    /\ graph = EmptyGraph
    /\ mod_map = <<>>
    /\ calls = NoCalls
    /\ query = NoQuery
    /\ answer = <<>>
    /\ dep_graph = EmptyDepGraph
    /\ detector = NewDetector
    /\ rerun = <<>>

(***************************************************************************)
(* detectors/resource_conflicts.py: ResourceConflictDetector.              *)
(***************************************************************************)
CRITICAL_RESOURCE_TYPES == {1414857650, 53690476, 55242443, 11720834}

\* defaultdict(list)[key].append(mod): a dict keeps its keys in the order
\* of their first insertion
IndexAppend(index, key, entry) ==
    IF \E i \in 1..Len(index) : index[i].key = key
    THEN [i \in 1..Len(index) |->
            IF index[i].key = key
            THEN [key |-> key, items |-> Append(index[i].items, entry)]
            ELSE index[i]]
    ELSE Append(index, [key |-> key, items |-> <<entry>>])

RECURSIVE IndexKeys(_, _, _)
IndexKeys(index, mod, keys) ==
    IF keys = <<>> THEN index
    ELSE IndexKeys(IndexAppend(index, Head(keys), mod), mod, Tail(keys))

RECURSIVE BuildResourceIndexFrom(_, _)
BuildResourceIndexFrom(index, ms) ==
    IF ms = <<>> THEN index
    ELSE BuildResourceIndexFrom(IndexKeys(index, Head(ms), Head(ms).resource_keys), Tail(ms))

build_resource_index(ms) == BuildResourceIndexFrom(<<>>, ms)

\* [mod.name for mod in mod_list]
NamesOf(mod_list) == [i \in 1..Len(mod_list) |-> mod_list[i].name]

get_resource_type_name(resource_type) ==
    CASE resource_type = 1414857650 -> "SimData"
      [] resource_type = 53690476 -> "Object Definition"
      [] resource_type = 55242443 -> "Object Key"
      [] resource_type = 11720834 -> "CAS Part"
      [] resource_type = 832458525 -> "String Table"
      [] resource_type = 779470692 -> "Texture"
      [] OTHER -> "Unknown"

\* f"0x{resource_type:08X}:0x{resource_group:08X}:0x{resource_instance:016X}"
key_string(resource_key) ==
    <<"0", "x">> \o Hex(resource_key[1], 8) \o <<":", "0", "x">>
        \o Hex(resource_key[2], 8) \o <<":", "0", "x">>
        \o Hex(resource_key[3], 16)

create_resource_conflict_notcore(resource_key, mod_list) ==
    create_conflict("RESOURCE_DUPLICATE", NamesOf(mod_list),
                    Hex(resource_key[1], 8) \o <<"_">> \o Hex(resource_key[2], 8)
                        \o <<"_">> \o Hex(resource_key[3], 16),
                    [resource_key |-> key_string(resource_key),
                     resource_type |-> resource_key[1],
                     resource_type_hex |-> <<"0", "x">> \o Hex(resource_key[1], 8),
                     resource_type_name |-> "Unknown",
                     mod_count |-> Len(mod_list),
                     is_critical_resource |-> resource_key[1] \in {1414857650},
                     affected_mod_names |-> NamesOf(mod_list)],
                    resource_key[1] \in {1414857650})

create_resource_conflict(resource_key, mod_list) ==
    LET resource_type == resource_key[1]
        resource_group == resource_key[2]
        resource_instance == resource_key[3]
        is_critical == resource_type \in CRITICAL_RESOURCE_TYPES
        details ==
            [resource_key |-> key_string(resource_key),
             resource_type |-> resource_type,
             resource_type_hex |-> <<"0", "x">> \o Hex(resource_type, 8),
             resource_type_name |-> get_resource_type_name(resource_type),
             mod_count |-> Len(mod_list),
             is_critical_resource |-> is_critical,
             affected_mod_names |-> NamesOf(mod_list)]
    IN create_conflict("RESOURCE_DUPLICATE", NamesOf(mod_list),
                       Hex(resource_type, 8) \o <<"_">> \o Hex(resource_group, 8)
                           \o <<"_">> \o Hex(resource_instance, 16),
                       details, is_critical)

RECURSIVE BuildHashIndex_unfiltered(_, _)
BuildHashIndex_unfiltered(index, ms) ==
    IF ms = <<>> THEN index
    ELSE BuildHashIndex_unfiltered(IndexAppend(index, Head(ms).hash, Head(ms)), Tail(ms))

RECURSIVE BuildHashIndexFrom(_, _)
BuildHashIndexFrom(index, ms) ==
    IF ms = <<>> THEN index
    ELSE BuildHashIndexFrom(
             IF Truthy(Head(ms).hash) THEN IndexAppend(index, Head(ms).hash, Head(ms))
             ELSE index,
             Tail(ms))

RECURSIVE SumSizes(_)
SumSizes(mod_list) ==
    IF mod_list = <<>> THEN 0 ELSE Head(mod_list).size + SumSizes(Tail(mod_list))

create_hash_conflict(file_hash, mod_list) ==
    create_conflict("RESOURCE_DUPLICATE", NamesOf(mod_list),
                    <<"h", "a", "s", "h", "_">> \o Prefix(file_hash, 16),
                    [file_hash |-> file_hash,
                     mod_count |-> Len(mod_list),
                     affected_mod_names |-> NamesOf(mod_list),
                     total_size |-> SumSizes(mod_list)],
                    FALSE)

Collisions_three(index) == SelectSeq(index, LAMBDA e : Len(e.items) > 2)

\* for key, items in index.items(): if len(items) > 1: ...
Collisions(index) == SelectSeq(index, LAMBDA e : Len(e.items) > 1)

detect_hash_collisions(ms) ==
    LET found == Collisions(BuildHashIndexFrom(<<>>, ms))
    IN [i \in 1..Len(found) |-> create_hash_conflict(found[i].key, found[i].items)]

resource_detect(ms) ==
    LET found == Collisions(build_resource_index(ms))
    IN [i \in 1..Len(found) |-> create_resource_conflict(found[i].key, found[i].items)]
           \o detect_hash_collisions(ms)

ScanResourceMod == ScanPackage(KeyOrders, Hashes, {<<>>})

DetectResources ==
    /\ pc = "idle"
    /\ conflicts' = resource_detect(mods)
    /\ pc' = "resource"
    /\ UNCHANGED <<mods, scripts, sev_args, sev_result, graph, mod_map, calls, query, answer, dep_graph, detector, rerun>>

NextResource == ScanResourceMod \/ DetectResources

SpecResource == InitMods /\ [][NextResource]_vars

(***************************************************************************)
(* Properties of the resource conflict detector.                           *)
(***************************************************************************)
\* positions in the list of mods of the mods that own a resource key
ModsWithKey(k) ==
    {i \in 1..Len(mods) :
        \E j \in 1..Len(mods[i].resource_keys) : mods[i].resource_keys[j] = k}

\* positions of the mods whose hash is h
ModsWithHash(h) == {i \in 1..Len(mods) : mods[i].hash = h}

\* the names of the mods at the positions I, in list order
RECURSIVE NamesAt(_, _)
NamesAt(ms, I) ==
    IF ms = <<>> THEN <<>>
    ELSE NamesAt(SubSeq(ms, 1, Len(ms) - 1), I)
             \o (IF Len(ms) \in I THEN <<ms[Len(ms)].name>> ELSE <<>>)

AffectedSet(c) == {c.affected_mods[i] : i \in 1..Len(c.affected_mods)}

IsKeyConflict(c) == "resource_key" \in DOMAIN c.details

IsHashConflict(c) == "file_hash" \in DOMAIN c.details

KeyConflictsFor(k) ==
    {i \in 1..Len(conflicts) :
        IsKeyConflict(conflicts[i]) /\ conflicts[i].details.resource_key = key_string(k)}

HashConflictsFor(h) ==
    {i \in 1..Len(conflicts) :
        IsHashConflict(conflicts[i]) /\ conflicts[i].details.file_hash = h}

\* C3 as stated: two mods sharing a key are named together by exactly one
\* RESOURCE_DUPLICATE conflict, and without a shared key there is no
\* RESOURCE_DUPLICATE conflict at all.
C3_OneDuplicatePerPair ==
    pc = "resource" =>
        /\ \A a, b \in 1..Len(mods) :
              (a # b /\ \E k \in Keys : {a, b} \subseteq ModsWithKey(k)) =>
                  Cardinality({i \in 1..Len(conflicts) :
                                  /\ conflicts[i].type = "RESOURCE_DUPLICATE"
                                  /\ {mods[a].name, mods[b].name}
                                         \subseteq AffectedSet(conflicts[i])}) = 1
        /\ (\A k \in Keys : Cardinality(ModsWithKey(k)) <= 1) =>
               \A i \in 1..Len(conflicts) : conflicts[i].type # "RESOURCE_DUPLICATE"

\* C3 amended: for every key shared by two mods there is exactly one
\* resource-key conflict for that key, it is a RESOURCE_DUPLICATE naming
\* both mods; when every key has a single owner there is no resource-key
\* conflict (hash collisions are RESOURCE_DUPLICATE conflicts of their own).
C3_OneConflictPerSharedKey ==
    pc = "resource" =>
        /\ \A k \in Keys : \A a, b \in ModsWithKey(k) :
              a # b =>
                  /\ Cardinality(KeyConflictsFor(k)) = 1
                  /\ \A i \in KeyConflictsFor(k) :
                        /\ conflicts[i].type = "RESOURCE_DUPLICATE"
                        /\ {mods[a].name, mods[b].name} \subseteq AffectedSet(conflicts[i])
        /\ (\A k \in Keys : Cardinality(ModsWithKey(k)) <= 1) =>
               \A i \in 1..Len(conflicts) : ~IsKeyConflict(conflicts[i])

C3_Witness ==
    /\ pc = "resource"
    /\ Len(mods) = 2
    /\ \A k \in Keys : ModsWithKey(k) = {1, 2}
    /\ mods[1].hash = HashA
    /\ mods[2].hash = HashA
    /\ Len(conflicts) = 3

\* the critical resource types: SimData, OBJD, OBJK, CAS Part
CriticalTypes == {1414857650, 53690476, 55242443, 11720834}

\* C7: a resource-key conflict is core exactly when the type of its key is
\* a critical resource type, and is then CRITICAL; for other types it is
\* LOW with 2 owners and MEDIUM with 3 or more.
C7_CriticalTypeSeverity ==
    pc = "resource" =>
        \A k \in Keys : \A i \in KeyConflictsFor(k) :
            /\ conflicts[i].details.is_critical_resource = (k[1] \in CriticalTypes)
            /\ Cardinality(ModsWithKey(k)) >= 2
            /\ conflicts[i].severity =
                  (IF k[1] \in CriticalTypes THEN "CRITICAL"
                   ELSE IF Cardinality(ModsWithKey(k)) = 2 THEN "LOW"
                   ELSE "MEDIUM")

C7_Witness ==
    /\ pc = "resource"
    /\ Cardinality(ModsWithKey(KeyTexture)) = 3
    /\ Cardinality(ModsWithKey(KeyOBJD)) = 2
    /\ \E i \in KeyConflictsFor(KeyTexture) : conflicts[i].severity = "MEDIUM"
    /\ \E i \in KeyConflictsFor(KeyOBJD) : conflicts[i].severity = "CRITICAL"

\* One hash conflict per hash carried by two or more mods, none for any
\* other hash, whatever the resource keys; hashKey is the key of the details
\* that marks a hash conflict.
HashConflictsMarkedBy(hashKey) ==
    pc = "resource" =>
        /\ \A h \in Hashes :
              IF Truthy(h) /\ Cardinality(ModsWithHash(h)) >= 2
              THEN \E i \in 1..Len(conflicts) :
                      /\ hashKey \in DOMAIN conflicts[i].details
                      /\ HashConflictsFor(h) = {i}
                      /\ conflicts[i].type = "RESOURCE_DUPLICATE"
                      /\ conflicts[i].affected_mods = NamesAt(mods, ModsWithHash(h))
              ELSE HashConflictsFor(h) = {}
        /\ \A i \in 1..Len(conflicts) :
              \/ /\ hashKey \in DOMAIN conflicts[i].details
                 /\ "resource_key" \notin DOMAIN conflicts[i].details
              \/ /\ "resource_key" \in DOMAIN conflicts[i].details
                 /\ DOMAIN conflicts[i].details \cap {"content_hash", "file_hash"} = {}
        /\ Len(conflicts) =
               Cardinality({k \in Keys : Cardinality(ModsWithKey(k)) >= 2})
                   + Cardinality({h \in Hashes :
                                     Truthy(h) /\ Cardinality(ModsWithHash(h)) >= 2})

\* C8 as stated: the details of a hash conflict carry the key "content_hash".
C8_ContentHashKey == HashConflictsMarkedBy("content_hash")

\* C8 amended: for every hash carried by two or more mods (absent and empty
\* hashes ignored) there is one more RESOURCE_DUPLICATE conflict listing
\* those mods, besides the resource-key conflicts; its details carry the key
\* "file_hash" and no "resource_key", those of a resource-key conflict carry
\* "resource_key" and no hash key.
C8_FileHashKey == HashConflictsMarkedBy("file_hash")

C8_Witness ==
    /\ pc = "resource"
    /\ Len(mods) = 3
    /\ ModsWithHash(HashA) = {1, 3}
    /\ mods[2].hash = None
    /\ ModsWithKey(KeyTexture) = {1, 3}
    /\ Cardinality(HashConflictsFor(HashA)) = 1
    /\ Cardinality(KeyConflictsFor(KeyTexture)) = 1

\* C9: the list returned by the resource detector is sorted by conflict id.
C9_SortedById ==
    pc = "resource" =>
        \A i, j \in 1..Len(conflicts) :
            i < j => StrLeq(conflicts[i].id, conflicts[j].id)

(***************************************************************************)
(* detectors/tuning_conflicts.py: TuningConflictDetector.                  *)
(***************************************************************************)
\* SeverityRules.is_core_tuning
is_core_tuning(tuning_class) == tuning_class \in CORE_TUNING_TYPES

RECURSIVE IndexTunings(_, _, _)
IndexTunings(index, mod, tunings) ==
    IF tunings = <<>> THEN index
    ELSE IndexTunings(
             IndexAppend(index, Head(tunings).instance_id,
                         [mod |-> mod, tuning |-> Head(tunings)]),
             mod, Tail(tunings))

RECURSIVE BuildTuningIndexFrom(_, _)
BuildTuningIndexFrom(index, ms) ==
    IF ms = <<>> THEN index
    ELSE BuildTuningIndexFrom(IndexTunings(index, Head(ms), Head(ms).tunings), Tail(ms))

build_tuning_index(ms) == BuildTuningIndexFrom(<<>>, ms)

get_modification_details(tuning_entries) ==
    [i \in 1..Len(tuning_entries) |->
        [mod_name |-> tuning_entries[i].mod.name,
         tuning_module |-> tuning_entries[i].tuning.module,
         attributes_modified |-> tuning_entries[i].tuning.modified_attributes]]

create_tuning_conflict_anycore(tuning_id, tuning_entries) ==
    LET affected_mods == [i \in 1..Len(tuning_entries) |-> tuning_entries[i].mod.name]
        first_tuning == tuning_entries[1].tuning
        tuning_class == first_tuning.tuning_class
        tuning_name == first_tuning.tuning_name
        is_core == \E i \in 1..Len(tuning_entries) :
                       is_core_tuning(tuning_entries[i].tuning.tuning_class)
        details ==
            [tuning_id |-> tuning_id,
             tuning_id_hex |-> <<"0", "x">> \o Hex(tuning_id, 8),
             tuning_name |-> tuning_name,
             tuning_class |-> tuning_class,
             mod_count |-> Len(affected_mods),
             is_core_tuning |-> is_core,
             modifications |-> get_modification_details(tuning_entries)]
    IN create_conflict("TUNING_OVERLAP", affected_mods, Hex(tuning_id, 8), details, is_core)

create_tuning_conflict(tuning_id, tuning_entries) ==
    LET affected_mods == [i \in 1..Len(tuning_entries) |-> tuning_entries[i].mod.name]
        first_tuning == tuning_entries[1].tuning
        tuning_class == first_tuning.tuning_class
        tuning_name == first_tuning.tuning_name
        is_core == is_core_tuning(tuning_class)
        details ==
            [tuning_id |-> tuning_id,
             tuning_id_hex |-> <<"0", "x">> \o Hex(tuning_id, 8),
             tuning_name |-> tuning_name,
             tuning_class |-> tuning_class,
             mod_count |-> Len(affected_mods),
             is_core_tuning |-> is_core,
             modifications |-> get_modification_details(tuning_entries)]
    IN create_conflict("TUNING_OVERLAP", affected_mods, Hex(tuning_id, 8), details, is_core)

tuning_detect(ms) ==
    LET found == Collisions(build_tuning_index(ms))
    IN [i \in 1..Len(found) |-> create_tuning_conflict(found[i].key, found[i].items)]

\* the lists of tunings a package can hold
TuningLists == UNION {[1..k -> TuningData] : k \in 0..MaxEntries}

ScanTuningMod == ScanPackage({<<>>}, {None}, TuningLists)

DetectTunings ==
    /\ pc = "idle"
    /\ conflicts' = tuning_detect(mods)
    /\ pc' = "tuning"
    /\ UNCHANGED <<mods, scripts, sev_args, sev_result, graph, mod_map, calls, query, answer, dep_graph, detector, rerun>>

NextTuning == ScanTuningMod \/ DetectTunings

SpecTuning == InitMods /\ [][NextTuning]_vars

(***************************************************************************)
(* Properties of the tuning conflict detector.                             *)
(***************************************************************************)
\* positions of the mods that define the tuning instance id
ModsWithTuning(id) ==
    {i \in 1..Len(mods) :
        \E j \in 1..Len(mods[i].tunings) : mods[i].tunings[j].instance_id = id}

\* the tuning classes declared for the instance id by any mod
ClassesOf(id) ==
    {mods[q[1]].tunings[q[2]].tuning_class :
        q \in {r \in (1..Len(mods)) \X (1..MaxEntries) :
                 /\ r[2] <= Len(mods[r[1]].tunings)
                 /\ mods[r[1]].tunings[r[2]].instance_id = id}}

TuningConflictsFor(id) ==
    {i \in 1..Len(conflicts) :
        conflicts[i].type = "TUNING_OVERLAP" /\ conflicts[i].details.tuning_id = id}

\* C4: there is a TUNING_OVERLAP conflict for an instance id exactly when
\* two or more distinct mods define it, and then exactly one; an instance
\* defined by a single mod, however often, yields none.
C4_ConflictIffTwoOwners ==
    pc = "tuning" =>
        /\ \A id \in TuningIds :
              Cardinality(TuningConflictsFor(id)) =
                  (IF Cardinality(ModsWithTuning(id)) >= 2 THEN 1 ELSE 0)
        /\ \A i \in 1..Len(conflicts) : conflicts[i].type = "TUNING_OVERLAP"

\* affected_mods is sorted by name without repetition
StrictlySorted(names) ==
    \A i, j \in 1..Len(names) : i < j => NameRank[names[i]] < NameRank[names[j]]

\* C5: the affected list of every conflict of the resource and the tuning
\* detector is sorted, free of duplicates and has at least two names.
C5_AffectedSortedDistinct ==
    pc \in {"resource", "tuning"} =>
        \A i \in 1..Len(conflicts) :
            /\ StrictlySorted(conflicts[i].affected_mods)
            /\ Cardinality(AffectedSet(conflicts[i])) >= 2

\* the core tuning classes
CoreClasses == {"Buff", "Trait", "Skill", "Career", "Aspiration", "Commodity"}

\* C6: a TUNING_OVERLAP conflict on a tuning of class cls is core, and
\* CRITICAL, exactly when cls is a core tuning class; otherwise it is MEDIUM
\* with 2 owners and HIGH with 3 or more.
C6_CoreClassSeverity ==
    pc = "tuning" =>
        \A id \in TuningIds : \A cls \in TuningClasses :
            (ClassesOf(id) = {cls} /\ Cardinality(ModsWithTuning(id)) >= 2) =>
                /\ Cardinality(TuningConflictsFor(id)) = 1
                /\ \A i \in TuningConflictsFor(id) :
                      /\ conflicts[i].details.is_core_tuning = (cls \in CoreClasses)
                      /\ conflicts[i].severity =
                            (IF cls \in CoreClasses THEN "CRITICAL"
                             ELSE IF Cardinality(ModsWithTuning(id)) = 2 THEN "MEDIUM"
                             ELSE "HIGH")
                      /\ AffectedSet(conflicts[i]) =
                             {mods[m].name : m \in ModsWithTuning(id)}

(***************************************************************************)
(* analyzer.py: ModAnalyzer._detect_conflicts over the parsed packages and *)
(* the metadata of the script mods (script_metadata.py).                   *)
(***************************************************************************)
\* file names of the script mods, in the order of Python's sorted(); files
\* in different directories can carry the same name
ScriptNameList == <<"a.ts4script", "b.ts4script", "c.ts4script">>

ScriptNames == {ScriptNameList[i] : i \in 1..Len(ScriptNameList)}

\* module names found in the archives; "" is the unnamed module, which
\* analyze_script_mod leaves out and _detect_conflicts skips once more
ModuleNames == {"", "mc_cmd", "utils"}

FileRank ==
    [n \in ScriptNames \cup Names |->
        IF n \in ScriptNames
        THEN CHOOSE i \in 1..Len(ScriptNameList) : ScriptNameList[i] = n
        ELSE Len(ScriptNameList) + NameRank[n]]

\* sorted(set(names))
RECURSIVE SortedSet(_)
SortedSet(S) ==
    IF S = {} THEN <<>>
    ELSE LET least == CHOOSE n \in S : \A m \in S : FileRank[n] <= FileRank[m]
         IN <<least>> \o SortedSet(S \ {least})

sorted_set_unsorted(names) == names

sorted_set(names) == SortedSet({names[i] : i \in 1..Len(names)})

\* the orders in which a set of module names can be iterated
ModuleOrders ==
    {o \in [1..Cardinality(ModuleNames) -> ModuleNames] :
        \A i, j \in 1..Cardinality(ModuleNames) : i # j => o[i] # o[j]}

\* the elements of the set S in the order ord
InOrder(S, ord) == SelectSeq(ord, LAMBDA m : m \in S)

\* analyze_script_mod: the metadata of one more script mod is appended
ScanScript ==
    /\ pc = "idle"
    /\ Len(scripts) < MaxScripts
    /\ \E n \in ScriptNames, ms \in SUBSET ModuleNames :
          scripts' = Append(scripts, [name |-> n, module_names |-> ms])
    /\ UNCHANGED <<mods, sev_args, sev_result, conflicts, pc, graph, mod_map, calls, query, answer, dep_graph, detector, rerun>>

RECURSIVE IndexAll(_, _, _)
IndexAll(index, keys, entry) ==
    IF keys = <<>> THEN index
    ELSE IndexAll(IndexAppend(index, Head(keys), entry), Tail(keys), entry)

\* resource_sources[key].append(package.path.name)
RECURSIVE BuildSourcesFrom(_, _)
BuildSourcesFrom(index, packages) ==
    IF packages = <<>> THEN index
    ELSE BuildSourcesFrom(
             IndexAll(index, Head(packages).resource_keys, Head(packages).name),
             Tail(packages))

\* module_index[module].append(metadata.path.name)
RECURSIVE BuildModuleIndexFrom(_, _, _)
BuildModuleIndexFrom(index, metadata, ord) ==
    IF metadata = <<>> THEN index
    ELSE BuildModuleIndexFrom(
             IndexAll(index, InOrder(Head(metadata).module_names, ord), Head(metadata).name),
             Tail(metadata), ord)

\* The description texts are kept only as far as they vary: the module name
\* or the resource key they quote.
module_collisions(metadata, ord) ==
    LET found ==
            SelectSeq(BuildModuleIndexFrom(<<>>, metadata, ord),
                      LAMBDA e : ~(Len(sorted_set(e.items)) <= 1 \/ e.key = ""))
    IN [i \in 1..Len(found) |->
           [severity |-> "CRITICAL",
            type |-> "SCRIPT_MODULE_COLLISION",
            affected_mods |-> sorted_set(found[i].items),
            description |-> found[i].key]]

package_duplicates(packages) ==
    LET found ==
            SelectSeq(BuildSourcesFrom(<<>>, packages), LAMBDA e : ~(Len(e.items) <= 1))
    IN [i \in 1..Len(found) |->
           [severity |-> "HIGH",
            type |-> "RESOURCE_DUPLICATE",
            affected_mods |-> sorted_set(found[i].items),
            description |-> found[i].key]]

legacy_detect_conflicts(packages, metadata, ord) ==
    package_duplicates(packages) \o module_collisions(metadata, ord)

DetectModuleCollisions ==
    /\ pc = "idle"
    /\ \E ord \in ModuleOrders :
          conflicts' = legacy_detect_conflicts(mods, scripts, ord)
    /\ pc' = "modules"
    /\ UNCHANGED <<mods, scripts, sev_args, sev_result, graph, mod_map, calls, query, answer, dep_graph, detector, rerun>>

NextModules == ScanScript \/ DetectModuleCollisions

SpecModules == InitMods /\ [][NextModules]_vars

(***************************************************************************)
(* Properties of the module collision detection.                           *)
(***************************************************************************)
ModuleOwners(m) ==
    {scripts[i].name : i \in {j \in 1..Len(scripts) : m \in scripts[j].module_names}}

CollisionsFor(m) ==
    {i \in 1..Len(conflicts) : conflicts[i].description = m}

\* For every module name owned by two or more script mods there is a
\* conflict of the given kind whose affected list is the sorted set of the
\* owners; the empty name and a name with a single owner yield none.
ModuleCollisionsOfKind(kind) ==
    pc = "modules" =>
        \A m \in ModuleNames :
            IF m # "" /\ Cardinality(ModuleOwners(m)) >= 2
            THEN \E i \in 1..Len(conflicts) :
                    /\ CollisionsFor(m) = {i}
                    /\ conflicts[i].type = kind
                    /\ AffectedSet(conflicts[i]) = ModuleOwners(m)
                    /\ Len(conflicts[i].affected_mods) = Cardinality(ModuleOwners(m))
                    /\ \A a, b \in 1..Len(conflicts[i].affected_mods) :
                          a < b => FileRank[conflicts[i].affected_mods[a]]
                                       < FileRank[conflicts[i].affected_mods[b]]
            ELSE CollisionsFor(m) = {}

Extend(f, k, v) == [x \in DOMAIN f \cup {k} |-> IF x = k THEN v ELSE f[x]]

Contains(seq, x) == \E i \in 1..Len(seq) : seq[i] = x

\* the Mod objects handed to add_mod, one per name
GraphMod(n) == [name |-> n, path |-> <<"Mods", n>>]

\* the attributes of a node that add_mod creates for a dependency
Placeholder == [mod |-> None, path |-> None]

has_node(G, n) == n \in DOMAIN G.succ

\* G.add_node(n, **attr): a new node is appended, an existing one only has
\* its attributes updated
add_node(G, n, attr) ==
    IF has_node(G, n)
    THEN [G EXCEPT !.attrs[n] = attr]
    ELSE [nodes |-> Append(G.nodes, n),
          succ  |-> Extend(G.succ, n, <<>>),
          attrs |-> Extend(G.attrs, n, attr)]

add_edge_multi(G, u, v) == [G EXCEPT !.succ[u] = Append(@, v)]

\* G.add_edge(u, v) between two nodes of G: succ[u][v] is set, so an edge
\* that exists already stays where it is
add_edge(G, u, v) ==
    IF Contains(G.succ[u], v) THEN G ELSE [G EXCEPT !.succ[u] = Append(@, v)]

\* G.nodes() as a set, G.edges() and G.predecessors(v)
node_set(G) == DOMAIN G.succ

edges(G) ==
    {e \in node_set(G) \X node_set(G) : Contains(G.succ[e[1]], e[2])}

predecessors(G, v) == {u \in node_set(G) : Contains(G.succ[u], v)}

\* the loop over the dependencies in add_mod
RECURSIVE add_dependencies(_, _, _)
add_dependencies(G, mod_name, dependencies) ==
    IF dependencies = <<>> THEN G
    ELSE LET dep_name == Head(dependencies)
             G1 == IF has_node(G, dep_name) THEN G
                   ELSE add_node(G, dep_name, Placeholder)
         IN add_dependencies(add_edge(G1, mod_name, dep_name), mod_name,
                             Tail(dependencies))

add_mod(G, mod, dependencies) ==
    LET G1 == add_node(G, mod.name, [mod |-> mod, path |-> mod.path])
    IN IF dependencies # None /\ dependencies # <<>>
       THEN add_dependencies(G1, mod.name, dependencies)
       ELSE G1

\* the values of the dependencies argument: None or a list of names
DepLists == {None} \cup UNION {[1..k -> Names] : k \in 0..MaxDeps}

\* the record of the calls after add_mod(mod, dependencies)
RecordCall(c, n, dependencies) ==
    LET ds == IF dependencies = None THEN {}
              ELSE {dependencies[i] : i \in 1..Len(dependencies)}
        known == c.mods \cup {n} \cup {p[2] : p \in c.deps}
    IN [mods |-> c.mods \cup {n},
        deps |-> c.deps \cup {<<n, d>> : d \in ds},
        placeholders |-> c.placeholders \cup (ds \ known)]

\* one more call add_mod(mod, dependencies) with dependencies from depLists
AddModFrom(depLists) ==
    /\ pc = "idle"
    /\ \E n \in Names, dependencies \in depLists :
          /\ graph' = add_mod(graph, GraphMod(n), dependencies)
          /\ mod_map' = Extend(mod_map, n, GraphMod(n))
          /\ calls' = RecordCall(calls, n, dependencies)
    /\ Cardinality(edges(graph')) <= MaxEdges
    /\ UNCHANGED <<mods, scripts, sev_args, sev_result, conflicts, pc, query, answer, dep_graph, detector, rerun>>

AddMod == AddModFrom(DepLists)

\* the orders in which a set of node names can be iterated
NameOrders ==
    {o \in [1..Cardinality(Names) -> Names] :
        \A i, j \in 1..Cardinality(Names) : i # j => o[i] # o[j]}

in_degree(G, v) == Cardinality(predecessors(G, v))

\* the successors of the nodes of one generation, in the order in which
\* nx.topological_generations visits them
RECURSIVE children_of(_, _)
children_of(G, generation) ==
    IF generation = <<>> THEN <<>>
    ELSE G.succ[Head(generation)] \o children_of(G, Tail(generation))

\* indegree_map[child] -= 1 for every child; a child that reaches zero joins
\* the next generation (a node is in nx's indegree_map while its count is
\* positive)
RECURSIVE relax(_, _, _)
relax(children, indegree_map, zero_indegree) ==
    IF children = <<>> THEN [map |-> indegree_map, zero |-> zero_indegree]
    ELSE LET child == Head(children)
             d == indegree_map[child] - 1
         IN relax(Tail(children), [indegree_map EXCEPT ![child] = d],
                  IF d = 0 THEN Append(zero_indegree, child) ELSE zero_indegree)

RECURSIVE generations(_, _, _)
generations(G, indegree_map, zero_indegree) ==
    IF zero_indegree = <<>>
    THEN [order |-> <<>>, left |-> {v \in node_set(G) : indegree_map[v] > 0}]
    ELSE LET r == relax(children_of(G, zero_indegree), indegree_map, <<>>)
             rest == generations(G, r.map, r.zero)
         IN [order |-> zero_indegree \o rest.order, left |-> rest.left]

\* nx.topological_generations(G), flattened: the nodes in the order of
\* Kahn's algorithm and the nodes left with a positive in-degree, for which
\* networkx raises NetworkXUnfeasible
topological_generations(G) ==
    generations(G, [v \in node_set(G) |-> in_degree(G, v)],
                SelectSeq(G.nodes, LAMBDA v : in_degree(G, v) = 0))

\* nx.is_directed_acyclic_graph(G)
is_directed_acyclic_graph(G) == topological_generations(G).left = {}

has_cycles_noself(G) ==
    ~is_directed_acyclic_graph(
        [G EXCEPT !.succ = [u \in node_set(G) |->
                               SelectSeq(G.succ[u], LAMBDA v : v # u)]])

has_cycles(G) == ~is_directed_acyclic_graph(G)

Reverse(seq) == [i \in 1..Len(seq) |-> seq[Len(seq) + 1 - i]]

topological_sort_unreversed(G) ==
    IF has_cycles(G) THEN None ELSE topological_generations(G).order

topological_sort_nonempty(G) ==
    IF has_cycles(G) \/ G.nodes = <<>> THEN None
    ELSE Reverse(topological_generations(G).order)

topological_sort(G) ==
    IF has_cycles(G) THEN None ELSE Reverse(topological_generations(G).order)

\* breadth-first search along nbr: the nodes visited from the frontier
RECURSIVE bfs(_, _, _)
bfs(nbr, visited, frontier) ==
    IF frontier = {} THEN visited
    ELSE LET next == (UNION {nbr[v] : v \in frontier}) \ visited
         IN bfs(nbr, visited \cup next, next)

successor_sets(G) ==
    [u \in node_set(G) |-> {G.succ[u][i] : i \in 1..Len(G.succ[u])}]

predecessor_sets(G) == [v \in node_set(G) |-> predecessors(G, v)]

\* nx.descendants(G, source) and nx.ancestors(G, source): the children of the
\* edges of a breadth-first search, which never lead back to the source
descendants(G, source) == bfs(successor_sets(G), {source}, {source}) \ {source}

ancestors(G, source) == bfs(predecessor_sets(G), {source}, {source}) \ {source}

find_dependencies_direct(G, mod_name) ==
    IF mod_name \notin node_set(G) THEN {} ELSE successor_sets(G)[mod_name]

find_dependencies(G, mod_name) ==
    IF mod_name \notin node_set(G) THEN {} ELSE descendants(G, mod_name)

find_dependents_withself(G, mod_name) ==
    IF mod_name \notin node_set(G) THEN {} ELSE ancestors(G, mod_name) \cup {mod_name}

find_dependents(G, mod_name) ==
    IF mod_name \notin node_set(G) THEN {} ELSE ancestors(G, mod_name)

\* nx.simple_cycles(G) first yields [v] for every node with a self-loop and
\* goes on without the self-loops
self_loops(G) ==
    LET loops == SelectSeq(G.nodes, LAMBDA v : Contains(G.succ[v], v))
    IN [i \in 1..Len(loops) |-> <<loops[i]>>]

\* the cycles through path[1] that extend path inside the component c, in
\* the order of the depth-first search of _johnson_cycle_search; the nodes
\* that the search keeps blocked lead to no cycle
RECURSIVE johnson_cycle_search(_, _, _)
RECURSIVE search_neighbours(_, _, _, _)
johnson_cycle_search(G, c, path) ==
    search_neighbours(G, c, path, G.succ[path[Len(path)]])

search_neighbours(G, c, path, nbrs) ==
    IF nbrs = <<>> THEN <<>>
    ELSE LET w == Head(nbrs)
             found == IF w \notin c \/ w = path[Len(path)] THEN <<>>
                      ELSE IF w = path[1] THEN <<path>>
                      ELSE IF Contains(path, w) THEN <<>>
                      ELSE johnson_cycle_search(G, c, Append(path, w))
         IN found \o search_neighbours(G, c, path, Tail(nbrs))

\* the strongly connected components of at least two nodes of the subgraph
\* of G on the nodes S, listed in the order ord of their first nodes
components_of(G, S, ord) ==
    LET nbr == [u \in S |-> (successor_sets(G)[u] \cap S) \ {u}]
        scc(u) == {v \in S : v \in bfs(nbr, {u}, {u}) /\ u \in bfs(nbr, {v}, {v})}
        first == SelectSeq(ord, LAMBDA u :
                     /\ u \in S
                     /\ Cardinality(scc(u)) >= 2
                     /\ \A i, j \in 1..Len(ord) :
                            (ord[i] \in scc(u) /\ ord[j] = u) => j <= i)
    IN [i \in 1..Len(first) |-> scc(first[i])]

\* _directed_cycle_search: the last component is popped, searched from the
\* node that iterating it yields first, and split again without that node
RECURSIVE directed_cycle_search(_, _, _)
directed_cycle_search(G, components, ord) ==
    IF components = <<>> THEN <<>>
    ELSE LET c == components[Len(components)]
             v == InOrder(c, ord)[1]
         IN johnson_cycle_search(G, c, <<v>>)
                \o directed_cycle_search(G,
                       SubSeq(components, 1, Len(components) - 1)
                           \o components_of(G, c \ {v}, ord),
                       ord)

simple_cycles_noloops(G, ord) ==
    directed_cycle_search(G, components_of(G, node_set(G), ord), ord)

\* nx.simple_cycles(G) of networkx 3, where ord is the iteration order of
\* the sets of nodes
simple_cycles(G, ord) ==
    self_loops(G) \o directed_cycle_search(G, components_of(G, node_set(G), ord), ord)

detect_cycles(G, ord) == simple_cycles(G, ord)

RECURSIVE missing_from(_, _, _, _)
missing_from(G, nodes, installed_mods, ord) ==
    IF nodes = <<>> THEN <<>>
    ELSE LET node == Head(nodes)
             dependencies == InOrder(successor_sets(G)[node], ord)
             absent == SelectSeq(dependencies, LAMBDA dep : dep \notin installed_mods)
         IN [i \in 1..Len(absent) |-> <<node, absent[i]>>]
                \o missing_from(G, Tail(nodes), installed_mods, ord)

find_missing_dependencies_all(G, installed_mods, ord) ==
    missing_from(G, G.nodes, {}, ord)

\* ord is the iteration order of set(self.graph.successors(node))
find_missing_dependencies(G, installed_mods, ord) ==
    missing_from(G, G.nodes, installed_mods, ord)

calculate_issue_severity_fromfive(position_diff) ==
    IF position_diff > 20 THEN "HIGH"
    ELSE IF position_diff >= 5 THEN "MEDIUM"
    ELSE "LOW"

calculate_issue_severity(position_diff) ==
    IF position_diff > 20 THEN "HIGH"
    ELSE IF position_diff > 5 THEN "MEDIUM"
    ELSE "LOW"

\* list.index(x): the first position of x, and the position that the
\* dictionary {mod: i for i, mod in enumerate(order)} keeps: the last one
index(seq, x) == CHOOSE i \in 1..Len(seq) : seq[i] = x /\ \A j \in 1..(i - 1) : seq[j] # x

last_position(seq, x) ==
    CHOOSE i \in 1..Len(seq) : seq[i] = x /\ \A j \in (i + 1)..Len(seq) : seq[j] # x

abs(n) == IF n < 0 THEN 0 - n ELSE n

\* the loop over the direct dependencies of the mod at position i
has_violation_never(G, current_order, i) == FALSE

has_violation_reversed(G, current_order, i) ==
    \E k \in 1..Len(G.succ[current_order[i]]) :
        LET dep == G.succ[current_order[i]][k]
        IN Contains(current_order, dep) /\ i > last_position(current_order, dep)

has_violation(G, current_order, i) ==
    \E k \in 1..Len(G.succ[current_order[i]]) :
        LET dep == G.succ[current_order[i]][k]
        IN Contains(current_order, dep) /\ ~(i > last_position(current_order, dep))

\* the issue of the mod at position i, or no issue
issue_at(G, optimal_order, current_order, i) ==
    LET mod_name == current_order[i]
        current_pos == i
        optimal_pos == index(optimal_order, mod_name)
        violation == has_violation(G, current_order, i)
        position_diff == abs(current_pos - optimal_pos)
        reason == IF violation THEN "Loads before its dependencies"
                  ELSE IF optimal_pos < current_pos THEN "Loads after its dependents"
                  ELSE "Loads before its dependencies"
    IN IF ~Contains(optimal_order, mod_name) THEN <<>>
       ELSE IF optimal_pos # current_pos \/ violation
       THEN <<[mod |-> mod_name, current_position |-> current_pos,
               should_be_at |-> optimal_pos, reason |-> reason,
               severity |-> calculate_issue_severity(position_diff)]>>
       ELSE <<>>

RECURSIVE issues_from(_, _, _, _)
issues_from(G, optimal_order, current_order, i) ==
    IF i > Len(current_order) THEN <<>>
    ELSE issue_at(G, optimal_order, current_order, i)
             \o issues_from(G, optimal_order, current_order, i + 1)

get_load_order_issues_unchecked(G, current_order) ==
    issues_from(G, Reverse(topological_generations(G).order), current_order, 1)

get_load_order_issues(G, current_order) ==
    LET optimal_order == topological_sort(G)
    IN IF optimal_order = None THEN <<>>
       ELSE issues_from(G, optimal_order, current_order, 1)

\* the load orders handed to get_load_order_issues: lists of names, which
\* can name a mod twice or leave mods out
ActualOrders == UNION {[1..k -> Names] : k \in 0..MaxOrder}

(***************************************************************************)
(* The queries on the graph built so far.                                  *)
(***************************************************************************)
Ask(op, node, names, order, result) ==
    /\ pc = "idle"
    /\ query' = [op |-> op, node |-> node, names |-> names, order |-> order]
    /\ answer' = result
    /\ pc' = "graph"
    /\ UNCHANGED <<mods, scripts, sev_args, sev_result, conflicts, graph, mod_map, calls, dep_graph, detector, rerun>>

HasCycles == Ask("has_cycles", "", {}, <<>>, has_cycles(graph))

TopologicalSort == Ask("topological_sort", "", {}, <<>>, topological_sort(graph))

DetectCycles ==
    \E ord \in NameOrders : Ask("detect_cycles", "", {}, <<>>, detect_cycles(graph, ord))

FindDependencies ==
    \E n \in Names : Ask("find_dependencies", n, {}, <<>>, find_dependencies(graph, n))

FindDependents ==
    \E n \in Names : Ask("find_dependents", n, {}, <<>>, find_dependents(graph, n))

FindMissingDependencies ==
    \E installed_mods \in SUBSET Names, ord \in NameOrders :
        Ask("find_missing_dependencies", "", installed_mods, <<>>,
            find_missing_dependencies(graph, installed_mods, ord))

GetLoadOrderIssues ==
    \E current_order \in ActualOrders :
        Ask("get_load_order_issues", "", {}, current_order,
            get_load_order_issues(graph, current_order))

\* the recommendation text: its fixed part and the count it names, if any
generate_removal_recommendation(dependents) ==
    LET count == Cardinality(dependents)
    IN IF count = 0 THEN <<"Safe to remove (no mods depend on this)">>
       ELSE IF count = 1
       THEN <<"Warning: 1 mod depends on this. Consider keeping it.">>
       ELSE IF count <= 5
       THEN <<"CAUTION: ", count, " mods depend on this. Removing will break them.">>
       ELSE <<"HIGH RISK: ", count, " mods depend on this. Strongly recommend keeping!">>

impact_of_removal_direct(G, mod_name) ==
    LET dependents == IF mod_name \in node_set(G)
                      THEN predecessors(G, mod_name) ELSE {}
    IN [mod |-> mod_name,
        will_break |-> Cardinality(dependents),
        affected_mods |-> SortedSet(dependents),
        recommendation |-> generate_removal_recommendation(dependents)]

impact_of_removal(G, mod_name) ==
    LET dependents == find_dependents(G, mod_name)
    IN [mod |-> mod_name,
        will_break |-> Cardinality(dependents),
        affected_mods |-> SortedSet(dependents),
        recommendation |-> generate_removal_recommendation(dependents)]

ImpactOfRemoval ==
    \E n \in Names : Ask("impact_of_removal", n, {}, <<>>, impact_of_removal(graph, n))

NextGraph ==
    \/ AddMod
    \/ ImpactOfRemoval
    \/ HasCycles
    \/ TopologicalSort
    \/ DetectCycles
    \/ FindDependencies
    \/ FindDependents
    \/ FindMissingDependencies

SpecGraph == InitMods /\ [][NextGraph]_vars

\* the graph is built and a load order is validated against it
NextLoadOrder == AddMod \/ GetLoadOrderIssues

SpecLoadOrder == InitMods /\ [][NextLoadOrder]_vars

(***************************************************************************)
(* Claims about the dependency graph.                                      *)
(***************************************************************************)
NoRepeats(seq) == \A i, j \in 1..Len(seq) : i # j => seq[i] # seq[j]

\* C11: after any sequence of add_mod calls the nodes are the mod names
\* added and the dependency names mentioned, the edges are the (mod name,
\* dependency name) pairs mentioned, each once and self-edges included,
\* every key of mod_map is a node that carries its mod, and a node that
\* entered the graph as a placeholder keeps its incoming edges.
C11_GraphIsWhatWasAdded ==
    /\ node_set(graph) = calls.mods \cup {p[2] : p \in calls.deps}
    /\ {graph.nodes[i] : i \in 1..Len(graph.nodes)} = node_set(graph)
    /\ NoRepeats(graph.nodes)
    /\ edges(graph) = calls.deps
    /\ \A u \in node_set(graph) : NoRepeats(graph.succ[u])
    /\ DOMAIN mod_map = calls.mods
    /\ DOMAIN mod_map \subseteq node_set(graph)
    /\ \A n \in node_set(graph) :
          IF n \in DOMAIN mod_map
          THEN graph.attrs[n].mod = mod_map[n]
          ELSE graph.attrs[n] = Placeholder
    /\ \A n \in calls.placeholders :
          \A p \in calls.deps : p[2] = n => Contains(graph.succ[p[1]], n)

\* a placeholder that became a mod, with its incoming edge, a repeated
\* dependency and a self-edge
C11_Witness ==
    /\ pc = "idle"
    /\ node_set(graph) = {"A.package", "B.package"}
    /\ "B.package" \in calls.placeholders \cap DOMAIN mod_map
    /\ graph.succ["A.package"] = <<"B.package", "A.package">>
    /\ graph.succ["B.package"] = <<"B.package">>
    /\ graph.nodes = <<"A.package", "B.package">>

\* the nodes that a walk of one to k edges leads to from x
RECURSIVE ReachedWithin(_, _, _)
ReachedWithin(G, x, k) ==
    IF k = 0 THEN {}
    ELSE LET near == ReachedWithin(G, x, k - 1)
         IN {y \in node_set(G) :
                \/ Contains(G.succ[x], y)
                \/ \E z \in near : Contains(G.succ[z], y)}

\* the nodes that a walk of one or more edges leads to from x
ReachedFrom(G, x) == ReachedWithin(G, x, Cardinality(node_set(G)))

\* the graph is not a DAG: some node lies on a cycle, a self-edge included
Cyclic(G) == \E x \in node_set(G) : x \in ReachedFrom(G, x)

\* C12: has_cycles() is true exactly when the graph is not a DAG, a
\* self-edge counting as a cycle, and exactly when topological_sort()
\* returns None.
C12_CyclesIffNoOrder ==
    /\ (pc = "graph" /\ query.op = "has_cycles") =>
           /\ answer <=> Cyclic(graph)
           /\ answer <=> (topological_sort(graph) = None)
    /\ (pc = "graph" /\ query.op = "topological_sort") =>
           /\ (answer = None) <=> Cyclic(graph)
           /\ (answer = None) <=> has_cycles(graph)

\* a self-edge alone makes has_cycles() true
C12_Witness ==
    /\ pc = "graph"
    /\ query.op = "has_cycles"
    /\ answer = TRUE
    /\ edges(graph) = {<<"A.package", "A.package">>}

PositionIn(seq, x) == CHOOSE i \in 1..Len(seq) : seq[i] = x

\* C13: for an acyclic graph topological_sort() returns every node exactly
\* once, each dependency at a smaller index than its dependents.
C13_DependenciesFirst ==
    (pc = "graph" /\ query.op = "topological_sort" /\ ~Cyclic(graph)) =>
        /\ answer # None
        /\ Len(answer) = Cardinality(node_set(graph))
        /\ {answer[i] : i \in 1..Len(answer)} = node_set(graph)
        /\ \A e \in edges(graph) :
              PositionIn(answer, e[2]) < PositionIn(answer, e[1])

\* A needs B and C, B needs C: the only valid order is C, B, A
C13_Witness ==
    /\ pc = "graph"
    /\ query.op = "topological_sort"
    /\ edges(graph) = {<<"A.package", "B.package">>, <<"A.package", "C.package">>,
                       <<"B.package", "C.package">>}
    /\ answer = <<"C.package", "B.package", "A.package">>

\* c lists the nodes of an elementary cycle of G, walking it once
IsCycleList(G, c) ==
    /\ Len(c) >= 1
    /\ NoRepeats(c)
    /\ \A i \in 1..(Len(c) - 1) : <<c[i], c[i + 1]>> \in edges(G)
    /\ <<c[Len(c)], c[1]>> \in edges(G)

\* c and d list the same cycle from different starting nodes
SameCycle(c, d) ==
    /\ Len(c) = Len(d)
    /\ \E s \in 0..(Len(c) - 1) :
          \A i \in 1..Len(c) : d[i] = c[((i - 1 + s) % Len(c)) + 1]

CycleLists(G) ==
    {c \in UNION {[1..k -> node_set(G)] : k \in 1..Cardinality(node_set(G))} :
        IsCycleList(G, c)}

PathExists(G, y, x) ==
    \E k \in 2..Cardinality(node_set(G)) :
        \E path \in [1..k -> node_set(G)] :
            /\ path[1] = y
            /\ path[k] = x
            /\ NoRepeats(path)
            /\ \A i \in 1..(k - 1) : <<path[i], path[i + 1]>> \in edges(G)

\* C15: find_dependents(X) is the set of nodes Y with a directed path from Y
\* to X, and Y is in find_dependencies(X) exactly when X is in
\* find_dependents(Y), also in graphs with cycles and self-edges.
C15_DependentsInverse ==
    /\ (pc = "graph" /\ query.op = "find_dependents") =>
           /\ answer = {y \in node_set(graph) : PathExists(graph, y, query.node)}
           /\ \A y \in Names :
                  y \in answer <=> query.node \in find_dependencies(graph, y)
    /\ (pc = "graph" /\ query.op = "find_dependencies") =>
           \A y \in Names :
               y \in answer <=> query.node \in find_dependents(graph, y)

\* A and B depend on each other and A on itself: B is the only dependent of A
C15_Witness ==
    /\ pc = "graph"
    /\ query.op = "find_dependents"
    /\ query.node = "A.package"
    /\ edges(graph) = {<<"A.package", "B.package">>, <<"B.package", "A.package">>,
                       <<"A.package", "A.package">>}
    /\ answer = {"B.package"}

\* C16: find_dependencies(X) is the set of the nodes that one or more
\* dependent -> dependency edges lead to from X, X itself left out, also
\* when X lies on a cycle or has a self-edge.
C16_DependenciesReachable ==
    (pc = "graph" /\ query.op = "find_dependencies" /\ query.node \in node_set(graph)) =>
        /\ answer = ReachedFrom(graph, query.node) \ {query.node}
        /\ query.node \notin answer

\* A lies on the cycle A -> B -> A, and C is reached through B
C16_Witness ==
    /\ pc = "graph"
    /\ query.op = "find_dependencies"
    /\ query.node = "A.package"
    /\ edges(graph) = {<<"A.package", "B.package">>, <<"B.package", "A.package">>,
                       <<"B.package", "C.package">>}
    /\ answer = {"B.package", "C.package"}

\* C17: find_missing_dependencies(known_names) returns one (dependent,
\* dependency) pair for every edge whose dependency is not in known_names,
\* no other pair and none twice; it is empty when every node is known.
C17_MissingPerEdge ==
    (pc = "graph" /\ query.op = "find_missing_dependencies") =>
        /\ {answer[i] : i \in 1..Len(answer)}
               = {e \in edges(graph) : e[2] \notin query.names}
        /\ NoRepeats(answer)
        /\ node_set(graph) \subseteq query.names => answer = <<>>

\* A needs the unknown B and C and the known A; the set of its dependencies
\* is iterated with C before B
C17_Witness ==
    /\ pc = "graph"
    /\ query.op = "find_missing_dependencies"
    /\ query.names = {"A.package"}
    /\ node_set(graph) = Names
    /\ graph.succ["A.package"] = <<"A.package", "B.package", "C.package">>
    /\ answer = << <<"A.package", "C.package">>, <<"A.package", "B.package">> >>

\* every mod of the graph that stands in the order before one of its direct
\* dependencies is reported, at that position, with the given reason
ViolationsReportedAs(reason) ==
    (pc = "graph" /\ query.op = "get_load_order_issues") =>
        \A i \in 1..Len(query.order) :
            LET n == query.order[i]
            IN (/\ n \in node_set(graph)
                /\ \E j \in (i + 1)..Len(query.order) :
                       Contains(graph.succ[n], query.order[j]))
               => \/ \E k \in 1..Len(answer) :
                         /\ answer[k].mod = n
                         /\ answer[k].current_position = i
                         /\ answer[k].reason = reason
                  \/ Cyclic(graph)

C19_OptimalOrderHasNoIssues ==
    (/\ pc = "graph"
     /\ query.op = "get_load_order_issues"
     /\ answer # <<>>
     /\ query.order = topological_sort(graph)) => Cyclic(graph)

\* the chain A -> B -> C validated against its own order C, B, A
C19_Witness ==
    /\ pc = "graph"
    /\ query.op = "get_load_order_issues"
    /\ edges(graph) = {<<"A.package", "B.package">>, <<"B.package", "C.package">>}
    /\ query.order = <<"C.package", "B.package", "A.package">>
    /\ query.order = topological_sort(graph)
    /\ answer = <<>>

\* C20: when the graph has a cycle, a self-edge included, the result of
\* get_load_order_issues is empty for every order.
C20_CyclesGiveNoIssues ==
    (pc = "graph" /\ query.op = "get_load_order_issues" /\ answer # <<>>) =>
        ~Cyclic(graph)

\* A needs itself and B, and the order puts A before B
C20_Witness ==
    /\ pc = "graph"
    /\ query.op = "get_load_order_issues"
    /\ edges(graph) = {<<"A.package", "A.package">>, <<"A.package", "B.package">>}
    /\ query.order = <<"A.package", "B.package">>
    /\ answer = <<>>

(***************************************************************************)
(* Long load orders: mods without dependencies, validated against an order *)
(* in which one name is repeated before another one.                       *)
(***************************************************************************)
AddModPlain == AddModFrom({None})

RECURSIVE Repeat(_, _)
Repeat(x, k) == IF k = 0 THEN <<>> ELSE <<x>> \o Repeat(x, k - 1)

\* k entries of one name followed by one entry of a second name
LongOrders == {Append(Repeat(p, k), t) : p \in Names, t \in Names, k \in 0..MaxPad}

ValidateLongOrder ==
    \E current_order \in LongOrders :
        Ask("get_load_order_issues", "", {}, current_order,
            get_load_order_issues(graph, current_order))

NextLongOrder == AddModPlain \/ ValidateLongOrder

SpecLongOrder == InitMods /\ [][NextLongOrder]_vars

\* the bands of the distance between the current and the optimal position
SeverityBand(d) ==
    CASE d <= 5             -> "LOW"
      [] d >= 6 /\ d <= 20  -> "MEDIUM"
      [] d > 20             -> "HIGH"

Distance(a, b) == IF a < b THEN b - a ELSE a - b

\* C21: every issue of get_load_order_issues has severity LOW when its
\* current and optimal positions differ by at most 5, MEDIUM when they
\* differ by 6 to 20, and HIGH when they differ by more than 20.
C21_IssueSeverityBands ==
    (pc = "graph" /\ query.op = "get_load_order_issues") =>
        \A k \in 1..Len(answer) :
            answer[k].severity
                = SeverityBand(Distance(answer[k].current_position, answer[k].should_be_at))

\* one order with issues at the distances 5, 6, 20 and 21
C21_Witness ==
    /\ pc = "graph"
    /\ query.op = "get_load_order_issues"
    /\ \E a, b, c, d \in 1..Len(answer) :
          /\ Distance(answer[a].current_position, answer[a].should_be_at) = 5
          /\ answer[a].severity = "LOW"
          /\ Distance(answer[b].current_position, answer[b].should_be_at) = 6
          /\ answer[b].severity = "MEDIUM"
          /\ Distance(answer[c].current_position, answer[c].should_be_at) = 20
          /\ answer[c].severity = "MEDIUM"
          /\ Distance(answer[d].current_position, answer[d].should_be_at) = 21
          /\ answer[d].severity = "HIGH"

\* C22: impact_of_removal(X) lists find_dependents(X) sorted by name in
\* affected_mods and counts them in will_break, both empty for a node
\* without dependents and for a name that is not a node; for the edges
\* A -> B, B -> C the removal of C breaks 2 mods.
C22_ImpactIsDependents ==
    (pc = "graph" /\ query.op = "impact_of_removal") =>
        LET dependents == {y \in node_set(graph) : PathExists(graph, y, query.node)}
        IN /\ answer.mod = query.node
           /\ {answer.affected_mods[i] : i \in 1..Len(answer.affected_mods)} = dependents
           /\ \A i, j \in 1..Len(answer.affected_mods) :
                  i < j => NameRank[answer.affected_mods[i]]
                               < NameRank[answer.affected_mods[j]]
           /\ answer.will_break = Len(answer.affected_mods)
           /\ answer.will_break = Cardinality(find_dependents(graph, query.node))
           /\ (dependents = {} \/ query.node \notin node_set(graph)) =>
                  answer.will_break = 0 /\ answer.affected_mods = <<>>
           /\ (edges(graph) = {<<"A.package", "B.package">>, <<"B.package", "C.package">>}
                  /\ query.node = "C.package") => answer.will_break = 2

\* the chain A -> B -> C, built from C upwards: removing C breaks A and B
C22_Witness ==
    /\ pc = "graph"
    /\ query.op = "impact_of_removal"
    /\ query.node = "C.package"
    /\ graph.nodes = <<"C.package", "B.package", "A.package">>
    /\ edges(graph) = {<<"A.package", "B.package">>, <<"B.package", "C.package">>}
    /\ answer.will_break = 2
    /\ answer.affected_mods = <<"A.package", "B.package">>

\* the list seq sorted by name
SortedByName(seq) == SortedSet({seq[i] : i \in 1..Len(seq)})

\* the graph with the nodes and edges of G that is built when all mods are
\* added in the order of their names, before their dependencies, which are
\* listed in the order of their names
CanonicalGraph(G) ==
    [nodes |-> SortedByName(G.nodes),
     succ  |-> [u \in node_set(G) |-> SortedByName(G.succ[u])],
     attrs |-> G.attrs]

\* C23: two acyclic graphs with the same nodes and the same edges give the
\* same topological_sort(), whatever calls built them: the ordering is the
\* one of the graph built in the order of the names.
C23_SameGraphSameOrder ==
    (pc = "graph" /\ query.op = "topological_sort" /\ answer # None) =>
        answer = topological_sort(CanonicalGraph(graph))

(***************************************************************************)
(* model/graph.py: DepGraph, the graph of tuning references, and its two   *)
(* exports.                                                                *)
(***************************************************************************)
\* tuning ids in string order; "" is the id that add_edge refuses
NodeIdList == <<"", "a", "b">>

NodeIds == {NodeIdList[i] : i \in 1..Len(NodeIdList)}

IdRank == [n \in NodeIds |-> CHOOSE i \in 1..Len(NodeIdList) : NodeIdList[i] = n]

TuningTypes == {"I", "S"}

TuningNodes == [tuning_id : NodeIds, tuning_type : TuningTypes]

\* self._nodes[node.tuning_id] = node: an existing key keeps its place
dep_add_node(g, node) ==
    IF \E i \in 1..Len(g.nodes) : g.nodes[i].tuning_id = node.tuning_id
    THEN [g EXCEPT !.nodes = [i \in 1..Len(g.nodes) |->
                                 IF g.nodes[i].tuning_id = node.tuning_id
                                 THEN node ELSE g.nodes[i]]]
    ELSE [g EXCEPT !.nodes = Append(@, node)]

dep_add_edge(g, src_id, dst_id) ==
    IF src_id # "" /\ dst_id # ""
    THEN [g EXCEPT !.edges = @ \cup {<<src_id, dst_id>>}]
    ELSE g

\* G.add_edge(u, v) of networkx, which creates the endpoints that are not
\* nodes yet, without attributes
nx_add_edge(G, u, v) ==
    LET Gu == IF has_node(G, u) THEN G ELSE add_node(G, u, <<>>)
        Gv == IF has_node(Gu, v) THEN Gu ELSE add_node(Gu, v, <<>>)
    IN add_edge(Gv, u, v)

RECURSIVE nx_add_nodes(_, _)
nx_add_nodes(G, entries) ==
    IF entries = <<>> THEN G
    ELSE nx_add_nodes(add_node(G, Head(entries).tuning_id,
                               [tuning_type |-> Head(entries).tuning_type]),
                      Tail(entries))

RECURSIVE nx_add_edges(_, _)
nx_add_edges(G, edge_list) ==
    IF edge_list = <<>> THEN G
    ELSE LET src == Head(edge_list)[1]
             dst == Head(edge_list)[2]
             G1 == IF has_node(G, dst) THEN G
                   ELSE add_node(G, dst, [tuning_type |-> "unknown"])
         IN nx_add_edges(nx_add_edge(G1, src, dst), Tail(edge_list))

\* to_networkx, where edge_list is the set _edges in its iteration order
to_networkx(g, edge_list) == nx_add_edges(nx_add_nodes(EmptyGraph, g.nodes), edge_list)

\* the orders in which the set S can be iterated
OrdersOf(S) ==
    {o \in [1..Cardinality(S) -> S] :
        \A i, j \in 1..Cardinality(S) : i # j => o[i] # o[j]}

EdgeLess(e, f) ==
    \/ IdRank[e[1]] < IdRank[f[1]]
    \/ e[1] = f[1] /\ IdRank[e[2]] < IdRank[f[2]]

\* sorted(self._edges)
RECURSIVE sorted_edges(_)
sorted_edges(S) ==
    IF S = {} THEN <<>>
    ELSE LET least == CHOOSE e \in S : \A f \in S : f = e \/ EdgeLess(e, f)
         IN <<least>> \o sorted_edges(S \ {least})

\* sorted(nodes) for a dictionary given by its entries
RECURSIVE sorted_entries(_)
sorted_entries(entries) ==
    IF entries = <<>> THEN <<>>
    ELSE LET k == CHOOSE i \in 1..Len(entries) :
                      \A j \in 1..Len(entries) :
                          IdRank[entries[i].id] <= IdRank[entries[j].id]
         IN <<entries[k]>>
                \o sorted_entries(SelectSeq(entries, LAMBDA e : e.id # entries[k].id))

\* the loop of to_json over the sorted edges: the targets that are not
\* nodes yet are added to the dictionary of the nodes
RECURSIVE json_nodes(_, _)
json_nodes(nodes, edge_list) ==
    IF edge_list = <<>> THEN nodes
    ELSE LET dst == Head(edge_list)[2]
         IN json_nodes(IF \E i \in 1..Len(nodes) : nodes[i].id = dst THEN nodes
                       ELSE Append(nodes, [id |-> dst, tuning_type |-> "unknown"]),
                       Tail(edge_list))

to_json(g) ==
    LET nodes == [i \in 1..Len(g.nodes) |->
                     [id |-> g.nodes[i].tuning_id, tuning_type |-> g.nodes[i].tuning_type]]
        edge_list == sorted_edges(g.edges)
    IN [nodes |-> sorted_entries(json_nodes(nodes, edge_list)),
        edges |-> [i \in 1..Len(edge_list) |->
                      [source |-> edge_list[i][1], target |-> edge_list[i][2]]]]

DepAddNode ==
    /\ pc = "idle"
    /\ \E node \in TuningNodes : dep_graph' = dep_add_node(dep_graph, node)
    /\ UNCHANGED <<mods, scripts, sev_args, sev_result, conflicts, pc, graph, mod_map, calls, query, answer, detector, rerun>>

DepAddEdge ==
    /\ pc = "idle"
    /\ \E src_id \in NodeIds, dst_id \in NodeIds :
          dep_graph' = dep_add_edge(dep_graph, src_id, dst_id)
    /\ UNCHANGED <<mods, scripts, sev_args, sev_result, conflicts, pc, graph, mod_map, calls, query, answer, detector, rerun>>

ToJson == Ask("to_json", "", {}, <<>>, to_json(dep_graph))

ToNetworkx ==
    \E edge_list \in OrdersOf(dep_graph.edges) :
        Ask("to_networkx", "", {}, <<>>, to_networkx(dep_graph, edge_list))

NextDepGraph == DepAddNode \/ DepAddEdge \/ ToJson \/ ToNetworkx

SpecDepGraph == InitMods /\ [][NextDepGraph]_vars

\* a DepGraph rebuilt from an export with add_node and add_edge
RECURSIVE AddJsonNodes(_, _)
AddJsonNodes(g, nodes) ==
    IF nodes = <<>> THEN g
    ELSE AddJsonNodes(dep_add_node(g, [tuning_id |-> Head(nodes).id,
                                       tuning_type |-> Head(nodes).tuning_type]),
                      Tail(nodes))

RECURSIVE AddJsonEdges(_, _)
AddJsonEdges(g, edge_list) ==
    IF edge_list = <<>> THEN g
    ELSE AddJsonEdges(dep_add_edge(g, Head(edge_list).source, Head(edge_list).target),
                      Tail(edge_list))

Rebuilt(data) == AddJsonEdges(AddJsonNodes(EmptyDepGraph, data.nodes), data.edges)

JsonNodeSet(data) == {data.nodes[i].id : i \in 1..Len(data.nodes)}

JsonEdgeSet(data) == {<<data.edges[i].source, data.edges[i].target>> : i \in 1..Len(data.edges)}

\* C24: the nodes and edges of to_json() are those of to_networkx(), and a
\* graph rebuilt from the export has the same nodes and edges again, also
\* for edges whose source or target was never added as a node.
C24_ExportRoundTrip ==
    (pc = "graph" /\ query.op = "to_json") =>
        LET G == to_networkx(dep_graph, sorted_edges(dep_graph.edges))
            back == Rebuilt(answer)
            Gback == to_networkx(back, sorted_edges(back.edges))
        IN /\ JsonNodeSet(answer) = node_set(G)
           /\ JsonEdgeSet(answer) = edges(G)
           /\ JsonNodeSet(to_json(back)) = JsonNodeSet(answer)
           /\ JsonEdgeSet(to_json(back)) = JsonEdgeSet(answer)
           /\ node_set(Gback) = node_set(G)
           /\ edges(Gback) = edges(G)


(***************************************************************************)
(* Running a detector through ConflictDetector.run and asking again: the   *)
(* analysis (analyzers/mod_analyzer.py) runs the detectors on the scanned  *)
(* mods, the dependency command (cli.py) builds a graph and queries it;    *)
(* one process does one of the two.                                        *)
(***************************************************************************)
\* datetime.now(): a clock reading later than every earlier one
now(det) == IF det.last_run = <<>> THEN 1 ELSE det.last_run[1] + 1

\* self.detect(mods) of the detector class
detect(kind, ms) ==
    IF kind = "resource" THEN resource_detect(ms) ELSE tuning_detect(ms)

run_resuming(det, kind, ms) ==
    LET found == detect(kind, ms)
        kept == IF det.last_run = <<>> THEN found
                ELSE SubSeq(found, det.conflicts_found + 1, Len(found))
    IN [conflicts |-> kept,
        detector |-> [conflicts_found |-> Len(kept), last_run |-> <<now(det)>>]]

run(det, kind, ms) ==
    LET found == detect(kind, ms)
    IN [conflicts |-> found,
        detector |-> [conflicts_found |-> Len(found), last_run |-> <<now(det)>>]]

\* the packages of a run that is later repeated
RerunKeyOrders == {<<>>, <<KeyOBJD>>}

RerunTuningLists ==
    {<<>>} \cup {<<[instance_id |-> 11189196, tuning_name |-> "tuning",
                   tuning_class |-> c, module |-> "module",
                   modified_attributes |-> 0]>> : c \in TuningClasses}

ScanRerunMod ==
    /\ graph = EmptyGraph
    /\ ScanPackage(RerunKeyOrders, {None, HashA}, RerunTuningLists)

RunDetector(kind) ==
    /\ pc = "idle"
    /\ graph = EmptyGraph
    /\ LET ran == run(detector, kind, mods)
       IN /\ conflicts' = ran.conflicts
          /\ detector' = ran.detector
    /\ pc' = kind
    /\ UNCHANGED <<mods, scripts, sev_args, sev_result, graph, mod_map, calls, query, answer, dep_graph, rerun>>

RunResources == RunDetector("resource")

RunTunings == RunDetector("tuning")

RerunDetector(kind) ==
    /\ pc = kind
    /\ \E through_run \in BOOLEAN :
          LET ran == run(detector, kind, mods)
          IN IF through_run
             THEN /\ rerun' = ran.conflicts
                  /\ detector' = ran.detector
             ELSE /\ rerun' = detect(kind, mods)
                  /\ detector' = detector
    /\ pc' = "reran"
    /\ UNCHANGED <<mods, scripts, sev_args, sev_result, conflicts, graph, mod_map, calls, query, answer, dep_graph>>

RerunResources == RerunDetector("resource")

RerunTunings == RerunDetector("tuning")

\* the graph of the dependency command: every mod with at most one
\* dependency
AddRerunMod ==
    /\ mods = <<>>
    /\ AddModFrom({None, <<>>} \cup {<<n>> : n \in Names})

\* the orders in which the process iterates over a set of names
IterationOrders == {NameList, Reverse(NameList)}

\* the queries asked twice; order is the load order given to
\* get_load_order_issues and, for the queries that walk a set, the
\* iteration order of the process
Queries ==
    [op : {"has_cycles", "topological_sort"}, node : {""}, names : {{}}, order : {<<>>}]
    \cup [op : {"detect_cycles"}, node : {""}, names : {{}}, order : IterationOrders]
    \cup [op : {"find_dependencies", "find_dependents", "impact_of_removal"},
          node : Names, names : {{}}, order : {<<>>}]
    \cup [op : {"find_missing_dependencies"}, node : {""},
          names : {{}, {"A.package"}, Names}, order : IterationOrders]
    \cup [op : {"get_load_order_issues"}, node : {""}, names : {{}},
          order : IterationOrders]

Evaluate(G, q) ==
    CASE q.op = "has_cycles" -> has_cycles(G)
      [] q.op = "topological_sort" -> topological_sort(G)
      [] q.op = "detect_cycles" -> detect_cycles(G, q.order)
      [] q.op = "find_dependencies" -> find_dependencies(G, q.node)
      [] q.op = "find_dependents" -> find_dependents(G, q.node)
      [] q.op = "impact_of_removal" -> impact_of_removal(G, q.node)
      [] q.op = "find_missing_dependencies" ->
             find_missing_dependencies(G, q.names, q.order)
      [] q.op = "get_load_order_issues" -> get_load_order_issues(G, q.order)

QueryGraph ==
    /\ mods = <<>>
    /\ \E q \in Queries : Ask(q.op, q.node, q.names, q.order, Evaluate(graph, q))

RerunQuery ==
    /\ pc = "graph"
    /\ query \in Queries
    /\ rerun' = Evaluate(graph, query)
    /\ pc' = "reran"
    /\ UNCHANGED <<mods, scripts, sev_args, sev_result, conflicts, graph, mod_map, calls, query, answer, dep_graph, detector>>

NextRerun ==
    \/ ScanRerunMod
    \/ RunResources
    \/ RunTunings
    \/ RerunResources
    \/ RerunTunings
    \/ AddRerunMod
    \/ QueryGraph
    \/ RerunQuery

SpecRerun == InitMods /\ [][NextRerun]_vars

OnEmptyGraph(op, result) ==
    CASE op = "has_cycles" -> result = FALSE
      [] op \in {"detect_cycles", "topological_sort", "find_missing_dependencies",
                 "get_load_order_issues"} -> result = <<>>
      [] OTHER -> TRUE

\* the answer a query has to give on the graph of the one node n
OnSingleNode(op, n, result) ==
    CASE op = "has_cycles" -> result = FALSE
      [] op = "detect_cycles" -> result = <<>>
      [] op = "topological_sort" -> result = <<n>>
      [] OTHER -> TRUE

\* C26: on the empty graph has_cycles is false and detect_cycles,
\* topological_sort, find_missing_dependencies and get_load_order_issues
\* return the empty list; find_dependencies and find_dependents of a name
\* that is not a node return the empty set; a single node without edges has
\* no cycles and sorts to the list of that node
C26_DegenerateGraphs ==
    pc = "graph" =>
        /\ graph.nodes = <<>> => OnEmptyGraph(query.op, answer)
        /\ (/\ query.op \in {"find_dependencies", "find_dependents"}
            /\ query.node \notin node_set(graph)) => answer = {}
        /\ (Len(graph.nodes) = 1 /\ edges(graph) = {})
               => OnSingleNode(query.op, graph.nodes[1], answer)

C26_Witness ==
    /\ pc = "graph"
    /\ graph = EmptyGraph
    /\ query.op = "topological_sort"
    /\ answer = <<>>


\* a mod without resources, tunings and content hash
IsEmptyMod(m) == m.resource_keys = <<>> /\ m.tunings = <<>> /\ ~Truthy(m.hash)

\* C27: no conflict of the resource or the tuning detector names a mod
\* that has no resources, no tunings and no content hash, and on the empty
\* list of mods and on a single mod the detectors return the empty list
C27_EmptyModsAndShortLists ==
    pc \in {"resource", "tuning"} =>
        /\ \A i \in 1..Len(conflicts) : \A m \in 1..Len(mods) :
              IsEmptyMod(mods[m]) => mods[m].name \notin AffectedSet(conflicts[i])
        /\ Len(mods) <= 1 => conflicts = <<>>


\* the order LOW < MEDIUM < HIGH < CRITICAL
SeverityLevel(s) ==
    CASE s = "LOW" -> 1 [] s = "MEDIUM" -> 2 [] s = "HIGH" -> 3 [] s = "CRITICAL" -> 4

\* C28: for a fixed kind and a fixed is_core flag the severity does not
\* decrease when the affected count grows: the severity computed for a
\* count is at least the severity of every smaller count
C28_SeverityMonotone ==
    pc = "severity" =>
        \A m \in 0..sev_args.count :
            SeverityLevel(calculate_severity(sev_args.kind, m, sev_args.core))
                <= SeverityLevel(sev_result)

C28_Witness ==
    /\ pc = "severity"
    /\ sev_args = [kind |-> "SCRIPT_INJECTION", count |-> 4, core |-> FALSE]
    /\ sev_result = "CRITICAL"
    /\ calculate_severity("SCRIPT_INJECTION", 1, FALSE) = "MEDIUM"


(***************************************************************************)
(* analyzers/mod_analyzer.py: ModAnalyzer.detect_conflicts runs the tuning *)
(* detector, then the resource detector, each through run, and            *)
(* concatenates what they return.                                          *)
(***************************************************************************)
\* two pairs of packages need four names
ManyNames == Names \cup {"D.package"}

AnalyzedTuningLists ==
    {<<>>, <<[instance_id |-> 11189196, tuning_name |-> "tuning",
              tuning_class |-> "Buff", module |-> "module",
              modified_attributes |-> 0]>>}

ScanAnalyzedMod ==
    ScanPackageNamed(ManyNames, RerunKeyOrders, {HashA, HashB}, AnalyzedTuningLists)

\* detector holds the state of the detector that ran last
DetectConflicts ==
    /\ pc = "idle"
    /\ LET tuning == run(NewDetector, "tuning", mods)
           resource == run(NewDetector, "resource", mods)
       IN /\ conflicts' = tuning.conflicts \o resource.conflicts
          /\ detector' = resource.detector
    /\ pc' = "analysis"
    /\ UNCHANGED <<mods, scripts, sev_args, sev_result, graph, mod_map, calls, query, answer, dep_graph, rerun>>

NextAnalysis == ScanAnalyzedMod \/ DetectConflicts

SpecAnalysis == InitMods /\ [][NextAnalysis]_vars

\* what a conflict is about: its kind with the tuning instance, the
\* resource key or the content hash
Subject(c) ==
    IF c.type = "TUNING_OVERLAP" THEN <<c.type, "tuning", c.details.tuning_id>>
    ELSE IF IsKeyConflict(c) THEN <<c.type, "key", c.details.resource_key>>
    ELSE <<c.type, "hash", c.details.file_hash>>

\* C29: in the combined output of the tuning and the resource detector no
\* two conflicts share an id, and conflicts about different tuning
\* instances, resource keys or content hashes have different ids
C29_IdsDistinct ==
    pc = "analysis" =>
        \A i, j \in 1..Len(conflicts) :
            conflicts[i].id = conflicts[j].id =>
                i = j /\ Subject(conflicts[i]) = Subject(conflicts[j])


(***************************************************************************)
(* The tuning detector on packages whose tunings of one instance differ in *)
(* name and class.                                                         *)
(***************************************************************************)
NamedTunings ==
    [instance_id : {11189196}, tuning_name : {"tuning", "override"},
     tuning_class : TuningClasses, module : {"module"}, modified_attributes : {0}]

NamedTuningLists == UNION {[1..k -> NamedTunings] : k \in 0..2}

ScanNamedTuningMod == ScanPackage({<<>>}, {None}, NamedTuningLists)

NextFirstEntry == ScanNamedTuningMod \/ DetectTunings

SpecFirstEntry == InitMods /\ [][NextFirstEntry]_vars

\* the first tuning of the instance id in the order of the mods and, within
\* a mod, of its tunings
FirstDefinition(id) ==
    LET m == CHOOSE i \in ModsWithTuning(id) : \A k \in ModsWithTuning(id) : i <= k
        defs == {j \in 1..Len(mods[m].tunings) : mods[m].tunings[j].instance_id = id}
        j == CHOOSE a \in defs : \A b \in defs : a <= b
    IN mods[m].tunings[j]

\* C30: a TUNING_OVERLAP conflict takes its tuning_class, its tuning_name
\* and its is_core flag from the first defining entry in the order of the
\* input list, and is CRITICAL exactly when the class of that entry is a
\* core class, whatever the later owners declare
C30_FirstEntryDecides ==
    pc = "tuning" =>
        \A i \in 1..Len(conflicts) :
            LET first == FirstDefinition(conflicts[i].details.tuning_id)
            IN /\ conflicts[i].details.tuning_class = first.tuning_class
               /\ conflicts[i].details.tuning_name = first.tuning_name
               /\ conflicts[i].details.is_core_tuning = (first.tuning_class \in CoreClasses)
               /\ (conflicts[i].severity = "CRITICAL") = (first.tuning_class \in CoreClasses)

C30_Witness ==
    /\ pc = "tuning"
    /\ Len(mods) = 2
    /\ mods[1].tunings = <<[instance_id |-> 11189196, tuning_name |-> "tuning",
                            tuning_class |-> "Interaction", module |-> "module",
                            modified_attributes |-> 0]>>
    /\ mods[2].tunings = <<[instance_id |-> 11189196, tuning_name |-> "override",
                            tuning_class |-> "Buff", module |-> "module",
                            modified_attributes |-> 0]>>
    /\ Len(conflicts) = 1
    /\ conflicts[1].details.tuning_class = "Interaction"
    /\ conflicts[1].details.tuning_name = "tuning"
    /\ conflicts[1].severity = "MEDIUM"

====
